---- MODULE Spec2Model ----
(***************************************************************************)
(* Intercity delivery planning: the time-expanded network construction of  *)
(* data_loader.py (DataLoader), the configuration of config.py and the     *)
(* constraint-model assembly of optimizer.py (Optimizer), as driven by     *)
(* main.py (run_single_experiment).                                        *)
(*                                                                         *)
(* Numbers.  The service parameters a, b of a city are floats in the code; *)
(* here they are rationals num/cfg.den, loads and durations are integers,  *)
(* and every value a*x + b*sqrt(x) or its inverse is kept exactly, as a    *)
(* number (p + r*sqrt(n))/d in canonical form, so that two values are      *)
(* equal as records exactly when they are equal as reals.  Floating-point  *)
(* rounding is not modelled.                                               *)
(***************************************************************************)
EXTENDS Integers, Sequences, FiniteSets, TLC

VARIABLES
    cfg,     \* DeliveryConfig of the run (mutable dataclass)
    orders,  \* all_orders: batch_id -> OrderBatch
    cache,   \* the four lru_cache tables of the DataLoader, most recent entry last
    ret,     \* the last DataLoader call: its name, arguments and result
    data,    \* DeliveryData handed to the Optimizer
    opt,     \* Optimizer: bound variable collections, objective, constraints, last step
    sol      \* opt.model.SolCount after optimize: whether the solver holds a solution

vars == <<cfg, orders, cache, ret, data, opt, sol>>

---------------------------------------------------------------------------
(* Bounds of the model *)

\* horizons T in 1..MaxT
MaxT == 2
\* the solver's assignments: variable values summing to at most MaxTotal
MaxTotal == 1
\* total length of the arc collections handed to a DataLoader method
MaxArgArcs == 2
\* how far past the horizon the arrival periods of such a collection go
MaxBeyond == 1

(* lru_cache(maxsize=1024) *)
maxsize == 1024

Flows == <<"+", "-">>

---------------------------------------------------------------------------
(* Python helpers *)

\* range(lo, hi) as a sequence
Range(lo, hi) == [k \in 1..(hi - lo) |-> lo + k - 1]

RECURSIVE Flatten(_)
Flatten(ss) == IF ss = <<>> THEN <<>> ELSE Head(ss) \o Flatten(Tail(ss))

Elems(s) == {s[k] : k \in 1..Len(s)}

\* dict keys in insertion order: main.py inserts the batches by ascending id
RECURSIVE KeySeq(_)
KeySeq(S) ==
    IF S = {} THEN <<>>
    ELSE LET m == CHOOSE x \in S : \A y \in S : x <= y
         IN  <<m>> \o KeySeq(S \ {m})

Ok(v) == [ok |-> TRUE, val |-> v]
Raise(e) == [ok |-> FALSE, err |-> e]

---------------------------------------------------------------------------
(* Exact numbers (p + r*sqrt(n))/d *)

Abs(x) == IF x < 0 THEN -x ELSE x

RECURSIVE GCD(_, _)
GCD(a, b) == IF b = 0 THEN a ELSE GCD(b, a % b)

\* the largest s with s*s dividing n (n >= 1)
SquarePart(n) ==
    CHOOSE s \in 1..n : n % (s * s) = 0 /\ \A t \in (s + 1)..n : n % (t * t) # 0

\* (p + r*sqrt(n))/d with n >= 0, d > 0, in canonical form
Real(p, r, n, d) ==
    LET s  == IF n = 0 THEN 0 ELSE SquarePart(n)
        m  == IF n = 0 THEN 1 ELSE n \div (s * s)
        r2 == IF m = 1 THEN 0 ELSE r * s
        p2 == IF m = 1 THEN p + r * s ELSE p
        m2 == IF r2 = 0 THEN 1 ELSE m
        g  == GCD(GCD(Abs(p2), Abs(r2)), d)
    IN  [p |-> IF p2 < 0 THEN -(Abs(p2) \div g) ELSE p2 \div g,
         r |-> IF r2 < 0 THEN -(Abs(r2) \div g) ELSE r2 \div g,
         n |-> m2,
         d |-> d \div g]

\* L <= R*sqrt(n), over the integers
LeqRoot(L, R, n) ==
    IF R >= 0 THEN L <= 0 \/ L * L <= R * R * n
              ELSE L <= 0 /\ L * L >= R * R * n

\* k <= v, for an integer k
IntLeq(k, v) == LeqRoot(k * v.d - v.p, v.r, v.n)

\* int(v) of a value v >= 0 (a, b and the load are never negative where it is used)
IntPart(v) ==
    LET ub == Abs(v.p) + Abs(v.r) * v.n + 1
    IN  CHOOSE k \in 0..ub : IntLeq(k, v) /\ ~IntLeq(k + 1, v)

---------------------------------------------------------------------------
(* ServiceRateModel: DataLoader.BHH_function_k, inverse_function_k *)

service_a(c, city) == IF city = 1 THEN c.service_a_1 ELSE c.service_a_2
service_b(c, city) == IF city = 1 THEN c.service_b_1 ELSE c.service_b_2

\* a*load + b*math.sqrt(load); math.sqrt raises ValueError below zero
BHH_body(c, city, load) ==
    IF load < 0 THEN Raise("ValueError")
    ELSE Ok(Real(service_a(c, city) * load, service_b(c, city), load, c.den))

\* u = (-b + math.sqrt(b**2 + 4*a*T)) / (2*a); return u**2
\*   with a = A/D, b = B/D:  u**2 = (B*B + 2*A*D*T - B*sqrt(B*B + 4*A*D*T)) / (2*A*A)
inverse_body(c, city, duration) ==
    LET A == service_a(c, city)
        B == service_b(c, city)
        N == B * B + 4 * A * c.den * duration
    IN  IF N < 0 THEN Raise("ValueError")
        ELSE IF A = 0 THEN Raise("ZeroDivisionError")
        ELSE Ok(Real(B * B + 2 * A * c.den * duration, -B, N, 2 * A * A))

FnNames == {"BHH_function_1", "BHH_function_2", "inverse_function_1", "inverse_function_2"}

Body(c, fn, x) ==
    CASE fn = "BHH_function_1" -> BHH_body(c, 1, x)
      [] fn = "BHH_function_2" -> BHH_body(c, 2, x)
      [] fn = "inverse_function_1" -> inverse_body(c, 1, x)
      [] fn = "inverse_function_2" -> inverse_body(c, 2, x)

\* functools.lru_cache around a method: the key is (self, argument) and nothing
\* else; a hit returns the stored value and makes the entry the most recent; a
\* miss runs the body, stores a returned value (an exception is not stored) and
\* drops the least recent entry beyond maxsize.
Cached(c, ch, fn, x) ==
    LET tab == ch[fn]
        hit == {k \in 1..Len(tab) : tab[k][1] = x}
    IN  IF hit # {}
        THEN LET k == CHOOSE k \in hit : TRUE
                 rest == SelectSeq(tab, LAMBDA e : e[1] # x)
             IN  [cache |-> [ch EXCEPT ![fn] = Append(rest, tab[k])],
                  res |-> Ok(tab[k][2])]
        ELSE LET r == Body(c, fn, x)
                 grown == Append(tab, <<x, IF r.ok THEN r.val ELSE 0>>)
                 kept == IF Len(grown) > maxsize THEN Tail(grown) ELSE grown
             IN  [cache |-> IF r.ok THEN [ch EXCEPT ![fn] = kept] ELSE ch,
                  res |-> r]

EmptyCache == [fn \in FnNames |-> <<>>]

---------------------------------------------------------------------------
(* ArcGenerator *)

\* single_city_arcs with the arrival at the limit included
single_city_arcs_upto_limit(T, span) ==
    Flatten([n \in 1..T |->
        LET i == n - 1
            js == Range(i + 1, i + span + 1)
        IN  [m \in 1..Len(js) |-> <<i, js[m]>>]])

\* for i in range(T): limit = i + int(service_func(M)); for j in range(i+1, limit): yield (i, j)
single_city_arcs(T, span) ==
    Flatten([n \in 1..T |->
        LET i == n - 1
            js == Range(i + 1, i + span)
        IN  [m \in 1..Len(js) |-> <<i, js[m]>>]])

\* DataLoader._generate_single_city_arcs through the cached service function:
\* the T calls share one argument, so they leave the cache as one call does
generate_single_city_arcs(c, ch, fn) ==
    IF c.T <= 0 THEN [cache |-> ch, res |-> Ok(<<>>)]
    ELSE LET call == Cached(c, ch, fn, c.capacity_manual)
         IN  [cache |-> call.cache,
              res |-> IF call.res.ok
                      THEN Ok(single_city_arcs(c.T, IntPart(call.res.val)))
                      ELSE call.res]

\* iter_1 = list(...BHH_function_1), then iter_2 = list(...BHH_function_2)
\* (each intermediate result is bound once: x \in {e})
generate_arcs_manual(c, ch) ==
    CHOOSE out \in
        {IF ~one.res.ok THEN [cache |-> one.cache, res |-> one.res]
         ELSE CHOOSE out2 \in
                {IF ~two.res.ok THEN [cache |-> two.cache, res |-> two.res]
                 ELSE [cache |-> two.cache, res |-> Ok(<<one.res.val, two.res.val>>)] :
                    two \in {generate_single_city_arcs(c, one.cache, "BHH_function_2")}} : TRUE :
            one \in {generate_single_city_arcs(c, ch, "BHH_function_1")}} : TRUE

\* for i in range(T - tau + 1): arcs_auto.append((i, i + tau))
generate_arcs_auto(c) ==
    LET is == Range(0, c.T - c.travel_time_periods + 1)
    IN  [m \in 1..Len(is) |-> <<is[m], is[m] + c.travel_time_periods>>]

---------------------------------------------------------------------------
(* ActiveArcIndex: DataLoader.generate_sets *)

\* append_span with a period past the horizon wrapped to its start
RECURSIVE append_span_wrapped(_, _, _, _)
append_span_wrapped(index, arc, ts, T) ==
    IF ts = <<>> THEN index
    ELSE append_span_wrapped([index EXCEPT ![Head(ts) % T] = Append(@, arc)],
                             arc, Tail(ts), T)

\* for t in range(i, j): if t < T: sets[t].append((i, j))
RECURSIVE append_span(_, _, _, _)
append_span(index, arc, ts, T) ==
    IF ts = <<>> THEN index
    ELSE LET t == Head(ts)
         IN  append_span(IF t < T THEN [index EXCEPT ![t] = Append(@, arc)] ELSE index,
                         arc, Tail(ts), T)

RECURSIVE fill_index(_, _, _)
fill_index(index, arcs, T) ==
    IF arcs = <<>> THEN index
    ELSE LET a == Head(arcs)
         IN  fill_index(append_span(index, a, Range(a[1], a[2]), T), Tail(arcs), T)

\* sets = {t: [] for t in range(T)}, then the loops over the arcs
active_index(arcs, T) == fill_index([t \in 0..(T - 1) |-> <<>>], arcs, T)

generate_sets(c, m1, m2, auto) ==
    <<active_index(m1, c.T), active_index(m2, c.T), active_index(auto, c.T)>>

---------------------------------------------------------------------------
(* TimeWindowFilter: DataLoader.generate_epsilon_sets *)

\* too_early with a departure at earliest_start counted as early
too_early_or_at(arcs, city, flow, l, order) ==
    LET hit == SelectSeq(arcs, LAMBDA a : a[1] <= order.earliest_start)
    IN  [n \in 1..Len(hit) |-> <<hit[n][1], hit[n][2], city, flow, l>>]

\* [(i, j, city, flow, l) for (i, j) in arcs if i < order.earliest_start]
too_early(arcs, city, flow, l, order) ==
    LET hit == SelectSeq(arcs, LAMBDA a : a[1] < order.earliest_start)
    IN  [n \in 1..Len(hit) |-> <<hit[n][1], hit[n][2], city, flow, l>>]

\* too_late with an arrival at latest_completion counted as late
too_late_or_at(arcs, city, flow, l, order) ==
    LET hit == SelectSeq(arcs, LAMBDA a : a[2] >= order.latest_completion)
    IN  [n \in 1..Len(hit) |-> <<hit[n][1], hit[n][2], city, flow, l>>]

\* [(i, j, city, flow, l) for (i, j) in arcs if j > order.latest_completion]
too_late(arcs, city, flow, l, order) ==
    LET hit == SelectSeq(arcs, LAMBDA a : a[2] > order.latest_completion)
    IN  [n \in 1..Len(hit) |-> <<hit[n][1], hit[n][2], city, flow, l>>]

generate_epsilon_sets(pos, neg, m1, m2) ==
    LET ps == KeySeq(DOMAIN pos)
        ns == KeySeq(DOMAIN neg)
    IN  Flatten([k \in 1..Len(ps) |->
                    too_early(m1, 1, "+", ps[k], pos[ps[k]])
                    \o too_late(m2, 2, "+", ps[k], pos[ps[k]])])
        \o
        Flatten([k \in 1..Len(ns) |->
                    too_early(m2, 2, "-", ns[k], neg[ns[k]])
                    \o too_late(m1, 1, "-", ns[k], neg[ns[k]])])

---------------------------------------------------------------------------
(* CapacityCoefficientTable: DataLoader.pre_inverse_count *)

\* inverse_all with the duration taken from the arrival period alone
RECURSIVE inverse_all_by_arrival(_, _, _, _, _)
inverse_all_by_arrival(c, ch, fn, arcs, coeff) ==
    IF arcs = <<>> THEN [cache |-> ch, res |-> Ok(coeff)]
    ELSE CHOOSE out \in
            {IF ~call.res.ok THEN call
             ELSE inverse_all_by_arrival(c, call.cache, fn, Tail(arcs),
                              [k \in DOMAIN coeff \cup {Head(arcs)} |->
                                  IF k = Head(arcs) THEN call.res.val ELSE coeff[k]]) :
                call \in {Cached(c, ch, fn, Head(arcs)[2] * c.t_0)}} : TRUE

\* for (i, j) in arcs: cap_coeff[(i, j)] = inverse_function_k((j - i) * t_0)
RECURSIVE inverse_all(_, _, _, _, _)
inverse_all(c, ch, fn, arcs, coeff) ==
    IF arcs = <<>> THEN [cache |-> ch, res |-> Ok(coeff)]
    ELSE CHOOSE out \in
            {IF ~call.res.ok THEN call
             ELSE inverse_all(c, call.cache, fn, Tail(arcs),
                              [k \in DOMAIN coeff \cup {Head(arcs)} |->
                                  IF k = Head(arcs) THEN call.res.val ELSE coeff[k]]) :
                call \in {Cached(c, ch, fn, (Head(arcs)[2] - Head(arcs)[1]) * c.t_0)}} : TRUE

pre_inverse_count(c, ch, m1, m2) ==
    CHOOSE out \in
        {IF ~one.res.ok THEN one
         ELSE CHOOSE out2 \in
                {IF ~two.res.ok THEN two
                 ELSE [cache |-> two.cache, res |-> Ok(<<one.res.val, two.res.val>>)] :
                    two \in {inverse_all(c, one.cache, "inverse_function_2", m2, <<>>)}} : TRUE :
            one \in {inverse_all(c, ch, "inverse_function_1", m1, <<>>)}} : TRUE

---------------------------------------------------------------------------
(* Orders: main.generate_random_orders files each batch under its own flow *)

pos_orders(all) == [l \in {k \in DOMAIN all : all[k].flow = "+"} |-> all[l]]
neg_orders(all) == [l \in {k \in DOMAIN all : all[k].flow # "+"} |-> all[l]]

---------------------------------------------------------------------------
(* NetworkModel: run_single_experiment, step 1 (DataLoader calls, DeliveryData) *)

NoData == [loaded |-> FALSE]

DeliveryData(all, m1, m2, auto, sets, eps, coef) ==
    [loaded |-> TRUE,
     arcs_manual_1 |-> m1, arcs_manual_2 |-> m2, arcs_auto |-> auto,
     sets_manual_1 |-> sets[1], sets_manual_2 |-> sets[2], sets_auto |-> sets[3],
     cap_coeff_1 |-> coef[1], cap_coeff_2 |-> coef[2],
     pos_orders |-> pos_orders(all), neg_orders |-> neg_orders(all),
     all_orders |-> all,
     epsilon_sets |-> eps]

---------------------------------------------------------------------------
(* Optimizer.setup_variables: the keys of the five variable collections *)

\* self.arcs_indices: (i, j, city, flow), city 1 first
arcs_indices(dat) ==
    Flatten([n \in 1..Len(dat.arcs_manual_1) |->
        [f \in 1..2 |-> <<dat.arcs_manual_1[n][1], dat.arcs_manual_1[n][2], 1, Flows[f]>>]])
    \o
    Flatten([n \in 1..Len(dat.arcs_manual_2) |->
        [f \in 1..2 |-> <<dat.arcs_manual_2[n][1], dat.arcs_manual_2[n][2], 2, Flows[f]>>]])

\* self.orders_indices: (i, j, flow), the city dropped
orders_indices(dat) ==
    Flatten([n \in 1..Len(dat.arcs_manual_1) |->
        [f \in 1..2 |-> <<dat.arcs_manual_1[n][1], dat.arcs_manual_1[n][2], Flows[f]>>]])
    \o
    Flatten([n \in 1..Len(dat.arcs_manual_2) |->
        [f \in 1..2 |-> <<dat.arcs_manual_2[n][1], dat.arcs_manual_2[n][2], Flows[f]>>]])

x_manual(dat) == {<<"x_manual", k>> : k \in Elems(arcs_indices(dat))}

y_auto(dat) ==
    {<<"y_auto", <<a[1], a[2], f>>>> : a \in Elems(dat.arcs_auto), f \in Elems(Flows)}

g_manual(dat) ==
    {<<"g_manual", <<k[1], k[2], k[3], l>>>> :
        k \in Elems(orders_indices(dat)), l \in DOMAIN dat.all_orders}

g_auto(dat) ==
    {<<"g_auto", <<a[1], a[2], f, l>>>> :
        a \in Elems(dat.arcs_auto), f \in Elems(Flows), l \in DOMAIN dat.all_orders}

z_unserved(dat) == {<<"z_unserved", l>> : l \in DOMAIN dat.all_orders}

\* every variable the attributes of the Optimizer reach (vtype INTEGER, lb 0, no ub)
declared_vars(dat) ==
    x_manual(dat) \cup y_auto(dat) \cup g_manual(dat) \cup g_auto(dat) \cup z_unserved(dat)

\* the collections setup_variables binds, in its order
Collections == <<"x_manual", "y_auto", "g_manual", "g_auto", "z_unserved">>

\* the keys handed to addVars for g_manual: orders_indices x all_orders.keys()
g_manual_keys(dat) ==
    LET ls == KeySeq(DOMAIN dat.all_orders)
    IN  Flatten([n \in 1..Len(orders_indices(dat)) |->
            [k \in 1..Len(ls) |-> orders_indices(dat)[n] \o <<ls[k]>>]])

\* a key occurs twice in the list (an arc of both cities gives the same (i, j, flow))
has_duplicates(keys) == Cardinality(Elems(keys)) # Len(keys)

\* what Model.addVars of the solver library does with a key list that holds a
\* key twice is not fixed by this code: it raises, or it creates a variable for
\* each occurrence and the collection keeps the last one under the key
DuplicateKeyOutcomes == {"raise", "overwrite"}

---------------------------------------------------------------------------
(* Optimizer.set_constraints *)

\* a linear constraint: sum of coef*var, a sense, a right-hand side
Constr(name, lhs, sense, rhs) == [name |-> name, lhs |-> lhs, sense |-> sense, rhs |-> rhs]

Plus(keys, kind) == [n \in 1..Len(keys) |-> <<1, <<kind, keys[n]>>>>]
Minus(keys, kind) == [n \in 1..Len(keys) |-> <<-1, <<kind, keys[n]>>>>]

\* a subscript self.<collection>[key] of a declared collection fails on an absent key
Subscripts(lhs, dat) ==
    IF {lhs[n][2] : n \in 1..Len(lhs)} \subseteq declared_vars(dat) THEN Ok(lhs)
    ELSE Raise("KeyError")

\* (2): for t, for city: sum of x_manual over S^k(t), both flows <= N_manual[city]
fleet_manual(c, dat, declared, t, city) ==
    LET active == IF city = 1 THEN dat.sets_manual_1[t] ELSE dat.sets_manual_2[t]
        keys == Flatten([n \in 1..Len(active) |->
                    [f \in 1..2 |-> <<active[n][1], active[n][2], city, Flows[f]>>]])
        lhs == Subscripts(Plus(keys, "x_manual"), dat)
    IN  IF active # <<>> /\ "x_manual" \notin declared THEN Raise("AttributeError")
        ELSE IF ~lhs.ok THEN lhs
        ELSE Ok(Constr(<<"(2)", city, t>>, lhs.val, "<=", c.N_manual[city]))

\* fleet_auto with the sum taken over the Forward flow only
fleet_auto_forward_only(c, dat, declared, t) ==
    LET active == dat.sets_auto[t]
        keys == [n \in 1..Len(active) |-> <<active[n][1], active[n][2], "+">>]
        lhs == Subscripts(Plus(keys, "y_auto"), dat)
    IN  IF active # <<>> /\ "y_auto" \notin declared THEN Raise("AttributeError")
        ELSE IF ~lhs.ok THEN lhs
        ELSE Ok(Constr(<<"(3)", t>>, lhs.val, "<=", c.N_auto[1] + c.N_auto[2]))

\* (3): for t: sum of y_auto over sets_auto[t], both flows <= sum(N_auto.values())
fleet_auto(c, dat, declared, t) ==
    LET active == dat.sets_auto[t]
        keys == Flatten([n \in 1..Len(active) |->
                    [f \in 1..2 |-> <<active[n][1], active[n][2], Flows[f]>>]])
        lhs == Subscripts(Plus(keys, "y_auto"), dat)
    IN  IF active # <<>> /\ "y_auto" \notin declared THEN Raise("AttributeError")
        ELSE IF ~lhs.ok THEN lhs
        ELSE Ok(Constr(<<"(3)", t>>, lhs.val, "<=", c.N_auto[1] + c.N_auto[2]))

\* (4)(5): for t: "for (i, j) in self.data.arcs_auto[t] if i < t".  arcs_auto is
\* the list of arcs, so arcs_auto[t] is item t of the list: IndexError past its
\* end, and otherwise one arc (i, j), a pair of integers, whose iteration hands
\* the integer i to the unpacking "(i, j)": TypeError.
flow_balance(c, dat, declared, t) ==
    IF t >= Len(dat.arcs_auto) THEN Raise("IndexError") ELSE Raise("TypeError")

\* (6): for each key of arcs_indices, addConstr(quicksum(g <= x*coeff for l ...)):
\* the summands are comparisons, not linear expressions, and the sum handed to
\* addConstr is no constraint; with no manual arc the loop body never runs
manual_volume(c, dat, declared) ==
    IF "g_manual" \notin declared THEN Raise("AttributeError")
    ELSE IF arcs_indices(dat) = <<>> THEN Ok(<<>>)
    ELSE Raise("TypeError")

flow_orders(dat, flow) == IF flow = "+" THEN dat.pos_orders ELSE dat.neg_orders

\* (7): g_auto[i,j,flow,l] <= y_auto[i,j,flow] * capacity_auto, orders of the flow
auto_volume(c, dat, declared) ==
    IF dat.arcs_auto # <<>> /\ "g_auto" \notin declared THEN Raise("AttributeError")
    ELSE Ok(Flatten(Flatten([n \in 1..Len(dat.arcs_auto) |-> [f \in 1..2 |->
            LET a == dat.arcs_auto[n]
                ls == KeySeq(DOMAIN flow_orders(dat, Flows[f]))
            IN  [k \in 1..Len(ls) |->
                    Constr(<<"(7)", a, Flows[f], ls[k]>>,
                           <<<<1, <<"g_auto", <<a[1], a[2], Flows[f], ls[k]>>>>>>,
                             <<-c.capacity_auto, <<"y_auto", <<a[1], a[2], Flows[f]>>>>>>>>,
                           "<=", 0)]]])))

\* (8): sum over the orders of the flow of g_auto <= y_auto * capacity_auto
auto_total(c, dat, declared) ==
    IF dat.arcs_auto # <<>> /\ "g_auto" \notin declared THEN Raise("AttributeError")
    ELSE Ok(Flatten([n \in 1..Len(dat.arcs_auto) |-> [f \in 1..2 |->
            LET a == dat.arcs_auto[n]
                ls == KeySeq(DOMAIN flow_orders(dat, Flows[f]))
            IN  Constr(<<"(8)", a, Flows[f]>>,
                       [k \in 1..Len(ls) |-> <<1, <<"g_auto", <<a[1], a[2], Flows[f], ls[k]>>>>>>]
                       \o <<<<-c.capacity_auto, <<"y_auto", <<a[1], a[2], Flows[f]>>>>>>>>,
                       "<=", 0)]]))

\* the g keys (i, j, flow, l) of the arcs whose departure (end 1) or arrival
\* (end 2) is at most t, for the orders of a flow
load_keys(arcs, dat, flow, end, t) ==
    LET hit == SelectSeq(arcs, LAMBDA a : a[end] <= t)
        ls == KeySeq(DOMAIN flow_orders(dat, flow))
    IN  Flatten([n \in 1..Len(hit) |->
            [k \in 1..Len(ls) |-> <<hit[n][1], hit[n][2], flow, ls[k]>>]])

\* (9)(10): transfer coupling at t for a flow
transfer(c, dat, declared, t, flow) ==
    LET origin == IF flow = "+" THEN dat.arcs_manual_1 ELSE dat.arcs_manual_2
        dest == IF flow = "+" THEN dat.arcs_manual_2 ELSE dat.arcs_manual_1
        nine == Subscripts(
                    Plus(load_keys(dat.arcs_auto, dat, flow, 1, t), "g_auto")
                    \o Minus(load_keys(origin, dat, flow, 2, t), "g_manual"),
                    dat)
        ten == Subscripts(
                    Plus(load_keys(dat.arcs_auto, dat, flow, 2, t), "g_auto")
                    \o Minus(load_keys(dest, dat, flow, 1, t), "g_manual"),
                    dat)
    IN  IF "g_auto" \notin declared THEN <<Raise("AttributeError")>>
        ELSE <<IF nine.ok THEN Ok(Constr(<<"(9)", flow, t>>, nine.val, "<=", 0)) ELSE nine,
               IF ten.ok THEN Ok(Constr(<<"(10)", flow, t>>, ten.val, ">=", 0)) ELSE ten>>

\* (11): sum of g_manual[i, j, order.flow, l] over the arcs of the order's origin
\* city == order.quantity - z_unserved[l]
demand_balance(c, dat, declared, l) ==
    LET order == dat.all_orders[l]
        arcs == IF order.flow = "+" THEN dat.arcs_manual_1 ELSE dat.arcs_manual_2
        lhs == Subscripts(
                   [n \in 1..Len(arcs) |->
                       <<1, <<"g_manual", <<arcs[n][1], arcs[n][2], order.flow, l>>>>>>]
                   \o <<<<1, <<"z_unserved", l>>>>>>,
                   dat)
    IN  IF "g_manual" \notin declared THEN Raise("AttributeError")
        ELSE IF ~lhs.ok THEN lhs
        ELSE Ok(Constr(<<"(11)", l>>, lhs.val, "==", order.quantity))

\* the constraints added up to the first statement that raises, and how it ended
run_steps(done, steps) ==
    LET bad == {k \in 1..Len(steps) : ~steps[k].ok}
        stop == IF bad = {} THEN Len(steps) + 1
                ELSE CHOOSE k \in bad : \A m \in bad : k <= m
    IN  [cons |-> done \cup {steps[k].val : k \in 1..(stop - 1)},
         res |-> IF bad = {} THEN Ok(TRUE) ELSE steps[stop]]

\* addConstrs hands over the constraints of a generator once it is exhausted
all_or_none(r) == IF r.ok THEN [n \in 1..Len(r.val) |-> Ok(r.val[n])] ELSE <<r>>

set_constraints(c, dat, declared) ==
    LET ts == Range(0, c.T)
        ls == KeySeq(DOMAIN dat.all_orders)
        head == run_steps({},
                    Flatten([n \in 1..Len(ts) |->
                        <<fleet_manual(c, dat, declared, ts[n], 1),
                          fleet_manual(c, dat, declared, ts[n], 2)>>])
                    \o [n \in 1..Len(ts) |-> fleet_auto(c, dat, declared, ts[n])]
                    \o [n \in 1..Len(ts) |-> flow_balance(c, dat, declared, ts[n])])
    IN  IF ~head.res.ok THEN head
        ELSE run_steps(head.cons,
                all_or_none(manual_volume(c, dat, declared))
                \o all_or_none(auto_volume(c, dat, declared))
                \o all_or_none(auto_total(c, dat, declared))
                \o Flatten([n \in 1..Len(ts) |->
                       transfer(c, dat, declared, ts[n], "+")
                       \o transfer(c, dat, declared, ts[n], "-")])
                \o all_or_none(
                       LET each == [k \in 1..Len(ls) |-> demand_balance(c, dat, declared, ls[k])]
                           bad == {k \in 1..Len(ls) : ~each[k].ok}
                       IN  IF bad = {} THEN Ok([k \in 1..Len(ls) |-> each[k].val])
                           ELSE each[CHOOSE k \in bad : \A m \in bad : k <= m]))

---------------------------------------------------------------------------
(* The solver: assignments of non-negative integers to the declared variables *)

Val(X, v) == IF v \in DOMAIN X THEN X[v] ELSE 0

RECURSIVE lhs_value(_, _)
lhs_value(X, lhs) ==
    IF lhs = <<>> THEN 0 ELSE Head(lhs)[1] * Val(X, Head(lhs)[2]) + lhs_value(X, Tail(lhs))

satisfies(X, con) ==
    CASE con.sense = "<=" -> lhs_value(X, con.lhs) <= con.rhs
      [] con.sense = ">=" -> lhs_value(X, con.lhs) >= con.rhs
      [] con.sense = "==" -> lhs_value(X, con.lhs) = con.rhs

\* the assignments over V whose values sum to at most m, zero entries left out
RECURSIVE assignments(_, _)
assignments(V, m) ==
    IF m = 0 THEN {<<>>}
    ELSE LET prev == assignments(V, m - 1)
         IN  prev \cup {IF v \in DOMAIN X THEN [X EXCEPT ![v] = @ + 1] ELSE X @@ (v :> 1) :
                          X \in prev, v \in V}

---------------------------------------------------------------------------
(* Configurations and orders the runs start from *)

\* service_a_1, service_b_1, service_a_2, service_b_2 as numerators over den = 2:
\* with capacity_manual = 4, a = 1/2, b = 0 gives rate 2; a = b = 1/2 gives rate 3;
\* a = 0, b = 1/2 gives rate 1, a city without manual arcs
Services == {<<1, 1, 1, 0>>, <<1, 0, 0, 1>>}

FleetsAuto == {<<0, 0>>, <<1, 0>>}

Quantities == {1, 2}

DeliveryConfig(T, tau, nauto, svc) ==
    [T |-> T, t_0 |-> 1, travel_time_periods |-> tau,
     N_manual |-> <<1, 1>>, N_auto |-> nauto,
     capacity_manual |-> 4, capacity_auto |-> 2,
     service_a_1 |-> svc[1], service_b_1 |-> svc[2],
     service_a_2 |-> svc[3], service_b_2 |-> svc[4], den |-> 2]

OrderBatch(l, flow, q, s, e) ==
    [batch_id |-> l, flow |-> flow, quantity |-> q,
     earliest_start |-> s, latest_completion |-> e]

\* batches with earliest_start < latest_completion <= T
Batches(l, T) ==
    {OrderBatch(l, f, q, w[1], w[2]) :
        f \in Elems(Flows), q \in Quantities,
        w \in {w \in (0..(T - 1)) \X (1..T) : w[1] < w[2]}}

NoCall == [fn |-> "none", in |-> <<>>, out |-> Ok(TRUE)]
NoSolution == [count |-> 0]

\* Optimizer.__init__: no attribute but cfg, data and the empty solver model
NewOptimizer ==
    [declared |-> {}, on_duplicate |-> "overwrite",
     objective |-> "unset", constrs |-> {}, complete |-> FALSE,
     optimized |-> FALSE, step |-> "__init__", result |-> Ok(TRUE)]

Fresh ==
    /\ cache = EmptyCache
    /\ ret = NoCall
    /\ data = NoData
    /\ opt = NewOptimizer
    /\ sol = NoSolution

\* a run of run_single_experiment starts, under either behaviour of the library
FreshRun ==
    /\ cache = EmptyCache
    /\ ret = NoCall
    /\ data = NoData
    /\ opt \in {[NewOptimizer EXCEPT !.on_duplicate = d] : d \in DuplicateKeyOutcomes}
    /\ sol = NoSolution

Init ==
    /\ cfg \in {DeliveryConfig(T, tau, n, svc) :
                    T \in 1..MaxT, tau \in 1..2, n \in FleetsAuto, svc \in Services}
    /\ orders \in {(1 :> b) : b \in Batches(1, cfg.T)}
    /\ FreshRun

---------------------------------------------------------------------------
(* run_single_experiment and the Optimizer's steps *)

\* step 1 of run_single_experiment: the DataLoader calls and DeliveryData(...);
\* an exception of a call ends the run with nothing built
LoadData ==
    /\ ~data.loaded
    /\ ret = NoCall
    /\ \E man \in {generate_arcs_manual(cfg, cache)} :
        IF ~man.res.ok
        THEN /\ cache' = man.cache
             /\ ret' = [fn |-> "load_data", in |-> <<>>, out |-> man.res]
             /\ data' = data
        ELSE \E m1 \in {man.res.val[1]}, m2 \in {man.res.val[2]},
                auto \in {generate_arcs_auto(cfg)} :
             \E sets \in {generate_sets(cfg, m1, m2, auto)},
                eps \in {generate_epsilon_sets(pos_orders(orders), neg_orders(orders), m1, m2)},
                coef \in {pre_inverse_count(cfg, man.cache, m1, m2)} :
                /\ cache' = coef.cache
                /\ ret' = [fn |-> "load_data", in |-> <<>>,
                           out |-> IF coef.res.ok THEN Ok(TRUE) ELSE coef.res]
                /\ data' = IF coef.res.ok
                           THEN DeliveryData(orders, m1, m2, auto, sets, eps, coef.res.val)
                           ELSE data
    /\ UNCHANGED <<cfg, orders, opt, sol>>

Finish(o, step, res) == [o EXCEPT !.step = step, !.result = res]

\* Optimizer.setup_variables: every attribute is rebound to freshly added
\* variables.  The variables of an earlier call stay in the solver model, with
\* the constraints and objective terms over them, but no attribute reaches them
\* any more: they are left out here (each such constraint holds at zero).
\* x_manual and y_auto are bound first; when addVars raises on the keys of
\* g_manual, the call ends there and the later collections stay as they were.
SetupVariables ==
    /\ data.loaded
    /\ opt' = IF has_duplicates(g_manual_keys(data)) /\ opt.on_duplicate = "raise"
              THEN Finish([opt EXCEPT !.declared = @ \cup {"x_manual", "y_auto"},
                                      !.objective = IF @ = "unset" THEN "unset" ELSE "stale",
                                      !.constrs = {con \in @ : con.lhs = <<>>}],
                          "setup_variables", Raise("DuplicateKeys"))
              ELSE Finish([opt EXCEPT !.declared = Elems(Collections),
                                      !.objective = IF @ = "unset" THEN "unset" ELSE "stale",
                                      !.constrs = {con \in @ : con.lhs = <<>>}],
                          "setup_variables", Ok(TRUE))
    /\ UNCHANGED <<cfg, orders, cache, ret, data, sol>>

\* set_objective without the attribute reads
SetObjective_no_reads ==
    /\ data.loaded
    /\ opt' = Finish([opt EXCEPT !.objective = "set"], "set_objective", Ok(TRUE))
    /\ UNCHANGED <<cfg, orders, cache, ret, data, sol>>

\* Optimizer.set_objective: reads self.z_unserved, then self.arcs_indices,
\* self.x_manual, self.y_auto, which exist only once setup_variables has bound them
SetObjective ==
    /\ data.loaded
    /\ opt' = IF "z_unserved" \in opt.declared
              THEN Finish([opt EXCEPT !.objective = "set"], "set_objective", Ok(TRUE))
              ELSE Finish(opt, "set_objective", Raise("AttributeError"))
    /\ UNCHANGED <<cfg, orders, cache, ret, data, sol>>

\* Optimizer.set_constraints: the constraints added before an exception stay
SetConstraints ==
    /\ data.loaded
    /\ LET r == set_constraints(cfg, data, opt.declared)
       IN  opt' = Finish([opt EXCEPT !.constrs = @ \cup r.cons,
                                     !.complete = @ \/ r.res.ok],
                         "set_constraints", r.res)
    /\ UNCHANGED <<cfg, orders, cache, ret, data, sol>>

\* the points the solver may stop at: the assignments that satisfy every
\* constraint added so far (among those of total at most MaxTotal)
feasible(o, dat) ==
    {X \in assignments({v \in declared_vars(dat) : v[1] \in o.declared}, MaxTotal) :
        \A con \in o.constrs : satisfies(X, con)}

\* opt.model.optimize(): never raises; SolCount > 0 exactly when the model built
\* so far has a solution, and the values read back are one point of feasible
Optimize ==
    /\ data.loaded
    /\ sol' = [count |-> IF feasible(opt, data) = {} THEN 0 ELSE 1]
    /\ opt' = Finish([opt EXCEPT !.optimized = TRUE], "optimize", Ok(TRUE))
    /\ UNCHANGED <<cfg, orders, cache, ret, data>>

Next == LoadData \/ SetupVariables \/ SetObjective \/ SetConstraints \/ Optimize

Spec == Init /\ [][Next]_vars

---------------------------------------------------------------------------
(* Properties of the built model (Spec) *)

\* the solver model as setup_variables followed by set_constraints leaves it
Built == data.loaded /\ opt.declared # {} /\ opt.step = "set_constraints"

\* the load-assignment variable of an infeasible pair (i, j, city, flow, l)
load_var(p) == <<"g_manual", <<p[1], p[2], p[4], p[5]>>>>

RECURSIVE total(_, _)
total(X, V) ==
    IF V = {} THEN 0
    ELSE LET v == CHOOSE v \in V : TRUE IN Val(X, v) + total(X, V \ {v})

\* C1 (as claimed): in every assignment that satisfies the model built by
\* setup_variables and set_constraints, each pair of epsilon_sets either has no
\* load-assignment variable or has load zero.
C1_InfeasiblePairsCarryNoLoad ==
    Built =>
        \A X \in feasible(opt, data) : \A n \in 1..Len(data.epsilon_sets) :
            \/ load_var(data.epsilon_sets[n]) \notin g_manual(data)
            \/ Val(X, load_var(data.epsilon_sets[n])) = 0

\* the load variables of order l on the arcs that epsilon_sets does not mark for it
feasible_load_vars(dat, l) ==
    {v \in g_manual(dat) :
        /\ v[2][3] = dat.all_orders[l].flow
        /\ v[2][4] = l
        /\ \A n \in 1..Len(dat.epsilon_sets) : load_var(dat.epsilon_sets[n]) # v}

\* C3 (as claimed): in every assignment that satisfies the built model, for every
\* order the load on its feasible arcs plus its unserved quantity is its demand.
C3_DemandBalance ==
    Built =>
        \A X \in feasible(opt, data) : \A l \in DOMAIN data.all_orders :
            total(X, feasible_load_vars(data, l)) + Val(X, <<"z_unserved", l>>)
                = data.all_orders[l].quantity

\* C8 (as claimed): set_constraints, called after setup_variables and
\* set_objective, completes and has added for every period t both autonomous
\* imbalance constraints (4) and (5).
C8_ImbalanceConstraintsAdded ==
    (Built /\ opt.objective = "set") =>
        /\ opt.result.ok
        /\ \A t \in 0..(cfg.T - 1) :
            /\ \E con \in opt.constrs : con.name = <<"(4)", t>>
            /\ \E con \in opt.constrs : con.name = <<"(5)", t>>

\* C9: with no autonomous vehicle in either city, every autonomous trip-count
\* variable occurs in a constraint (3) of some period, whose bound is zero, and is
\* zero in every assignment that satisfies the built model.
C9_NoAutoFleetNoAutoTrips ==
    (Built /\ cfg.N_auto = <<0, 0>>) =>
        /\ \A v \in y_auto(data) : \E con \in opt.constrs :
              /\ con.name[1] = "(3)" /\ con.sense = "<=" /\ con.rhs = 0
              /\ \E n \in 1..Len(con.lhs) : con.lhs[n] = <<1, v>>
        /\ \A X \in feasible(opt, data) : \A v \in y_auto(data) : Val(X, v) = 0

\* C9 witness: such a model with at least two autonomous arcs, a constraint (3)
\* over trip-counts of both flows, and a satisfying assignment other than zero
C9_Witness ==
    /\ Built
    /\ cfg.N_auto = <<0, 0>>
    /\ Len(data.arcs_auto) >= 2
    /\ \E con \in opt.constrs : con.name[1] = "(3)" /\ Len(con.lhs) >= 2
    /\ \E X \in feasible(opt, data) : X # <<>>

\* the builder state of the design, read off the Optimizer
Stage(o) ==
    IF o.optimized THEN "Solved"
    ELSE IF o.complete THEN "ConstraintsSet"
    ELSE IF o.objective # "unset" THEN "ObjectiveSet"
    ELSE IF o.declared = Elems(Collections) THEN "VariablesDeclared"
    ELSE "Empty"

\* the state a step must be invoked in
Predecessor(step) ==
    CASE step = "setup_variables" -> "Empty"
      [] step = "set_objective" -> "VariablesDeclared"
      [] step = "set_constraints" -> "ObjectiveSet"
      [] step = "optimize" -> "ConstraintsSet"

manual_load_var(a, city, flow, l) == <<"g_manual", <<a[1], a[2], flow, l>>>>

\* C13 (as claimed): setup_variables completes, declares no key of g_manual
\* twice, and for an arc of both cities' manual collections the load of an order
\* on the city-1 arc and its load on the city-2 arc are two distinct variables.
C13_SeparateLoadVariablePerCity ==
    (data.loaded /\ opt.step = "setup_variables") =>
        /\ opt.result.ok
        /\ ~has_duplicates(g_manual_keys(data))
        /\ \A a \in Elems(data.arcs_manual_1) \cap Elems(data.arcs_manual_2) :
            \A f \in Elems(Flows), l \in DOMAIN data.all_orders :
                manual_load_var(a, 1, f, l) # manual_load_var(a, 2, f, l)

---------------------------------------------------------------------------
(* ArcGenerator and CapacityCoefficientTable called on their own (SpecArcs) *)

\* with den = 2 the manual service rate 2a + b at capacity 4, (a + b)/2 at capacity 1
ArcServices == {<<1, 0, 1, 0>>, <<1, 1, 1, 0>>, <<1, 0, 1, 1>>, <<1, 1, 0, 1>>}

CapacitiesManual == {1, 4}

InitArcs ==
    /\ cfg \in {[DeliveryConfig(T, tau, <<1, 0>>, svc) EXCEPT !.capacity_manual = M] :
                    T \in 1..MaxT, tau \in 1..2, svc \in ArcServices, M \in CapacitiesManual}
    /\ orders = <<>>
    /\ Fresh

\* m1, m2 = loader.generate_arcs_manual()
CallArcsManual ==
    /\ \E man \in {generate_arcs_manual(cfg, cache)} :
        /\ cache' = man.cache
        /\ ret' = [fn |-> "generate_arcs_manual", in |-> <<>>, out |-> man.res]
    /\ UNCHANGED <<cfg, orders, data, opt, sol>>

\* auto = loader.generate_arcs_auto()
CallArcsAuto ==
    /\ ret' = [fn |-> "generate_arcs_auto", in |-> <<>>, out |-> Ok(generate_arcs_auto(cfg))]
    /\ UNCHANGED <<cfg, orders, cache, data, opt, sol>>

\* c1, c2 = loader.pre_inverse_count(m1, m2), on the arcs just generated
CallPreInverseCount ==
    /\ ret.fn = "generate_arcs_manual"
    /\ ret.out.ok
    /\ \E coef \in {pre_inverse_count(cfg, cache, ret.out.val[1], ret.out.val[2])} :
        /\ cache' = coef.cache
        /\ ret' = [fn |-> "pre_inverse_count", in |-> ret.out.val, out |-> coef.res]
    /\ UNCHANGED <<cfg, orders, data, opt, sol>>

NextArcs == CallArcsManual \/ CallArcsAuto \/ CallPreInverseCount

SpecArcs == InitArcs /\ [][NextArcs]_vars

\* floor(rate(manual capacity)) of a city, from the configuration
span_of(c, city) == IntPart(BHH_body(c, city, c.capacity_manual).val)

---------------------------------------------------------------------------
(* ActiveArcIndex called on arc collections of a caller (SpecSets) *)

\* arcs (i, j), i < j, over the periods up to MaxBeyond past the horizon
ArcUniverse(T) ==
    {a \in (0..(T + MaxBeyond - 1)) \X (1..(T + MaxBeyond)) : a[1] < a[2]}

\* lists of at most MaxArgArcs arcs, in any order, repetitions included
ArcLists(T) == UNION {[1..k -> ArcUniverse(T)] : k \in 0..MaxArgArcs}

DefaultConfig(T) == DeliveryConfig(T, 1, <<1, 0>>, <<1, 0, 1, 0>>)

InitSets ==
    /\ cfg \in {DefaultConfig(T) : T \in 1..MaxT}
    /\ orders = <<>>
    /\ Fresh

\* s1, s2, sa = loader.generate_sets(m1, m2, auto)
CallGenerateSets ==
    /\ ret = NoCall
    /\ \E all \in ArcLists(cfg.T) : \E p \in 0..Len(all) : \E q \in p..Len(all) :
        \E m1 \in {SubSeq(all, 1, p)}, m2 \in {SubSeq(all, p + 1, q)},
           auto \in {SubSeq(all, q + 1, Len(all))} :
            ret' = [fn |-> "generate_sets", in |-> <<m1, m2, auto>>,
                    out |-> Ok(generate_sets(cfg, m1, m2, auto))]
    /\ UNCHANGED <<cfg, orders, cache, data, opt, sol>>

NextSets == CallGenerateSets

SpecSets == InitSets /\ [][NextSets]_vars

\* C4: each index returned by generate_sets has exactly the keys 0..T-1, and its
\* entry for t lists exactly the arcs (i, j) of the collection with i <= t < j,
\* in the collection's order, arcs arriving beyond T included.
C4_IndexCoversEveryPeriod ==
    ret.fn = "generate_sets" =>
        \A k \in 1..3 :
            /\ DOMAIN ret.out.val[k] = 0..(cfg.T - 1)
            /\ \A t \in 0..(cfg.T - 1) :
                  ret.out.val[k][t] =
                      SelectSeq(ret.in[k], LAMBDA a : a[1] <= t /\ t < a[2])

\* C4 witness: a collection with an arc arriving beyond T, listed in the last
\* period and in no period past it, and an index with an empty entry
C4_Witness ==
    /\ ret.fn = "generate_sets"
    /\ cfg.T >= 2
    /\ \E n \in 1..Len(ret.in[1]) :
        /\ ret.in[1][n][2] > cfg.T
        /\ ret.in[1][n] \in Elems(ret.out.val[1][cfg.T - 1])
        /\ ret.out.val[1][0] = <<>>
    /\ \E t \in 0..(cfg.T - 1) : Len(ret.out.val[3][t]) = 1

---------------------------------------------------------------------------
(* TimeWindowFilter called on arc collections of a caller (SpecFilter) *)

\* one batch, or two: the second with either flow and the earliest window
FilterOrders(T) ==
    {(1 :> b) : b \in {x \in Batches(1, T) : x.quantity = 1}}
    \cup {(1 :> b) @@ (2 :> OrderBatch(2, f, 1, 0, 1)) :
            b \in {x \in Batches(1, T) : x.quantity = 1}, f \in Elems(Flows)}

InitFilter ==
    /\ cfg \in {DefaultConfig(T) : T \in 1..MaxT}
    /\ orders \in FilterOrders(cfg.T)
    /\ Fresh

\* epsilon = loader.generate_epsilon_sets(pos, neg, m1, m2), pos and neg as
\* generate_random_orders splits the batches
CallGenerateEpsilonSets ==
    /\ ret = NoCall
    /\ \E all \in ArcLists(cfg.T) : \E p \in 0..Len(all) :
        \E m1 \in {SubSeq(all, 1, p)}, m2 \in {SubSeq(all, p + 1, Len(all))} :
            ret' = [fn |-> "generate_epsilon_sets",
                    in |-> <<pos_orders(orders), neg_orders(orders), m1, m2>>,
                    out |-> Ok(generate_epsilon_sets(pos_orders(orders),
                                                     neg_orders(orders), m1, m2))]
    /\ UNCHANGED <<cfg, orders, cache, data, opt, sol>>

NextFilter == CallGenerateEpsilonSets

SpecFilter == InitFilter /\ [][NextFilter]_vars

\* the arc departs before the order's earliest start
departs_early(a, order) == a[1] < order.earliest_start
\* the arc arrives after the order's latest completion
arrives_late(a, order) == a[2] > order.latest_completion

\* C5: generate_epsilon_sets returns exactly the pairs (i, j, city, flow, l)
\* where flow is order l's own flow and: for a Forward order, a city-1 arc with
\* i < earliest_start or a city-2 arc with j > latest_completion; for a Reverse
\* order, a city-2 arc with i < earliest_start or a city-1 arc with
\* j > latest_completion.
C5_ExactlyWindowViolations ==
    ret.fn = "generate_epsilon_sets" =>
        Elems(ret.out.val) =
            {<<p[1][1], p[1][2], 1, orders[p[2]].flow, p[2]>> :
                p \in {p \in Elems(ret.in[3]) \X DOMAIN orders :
                        IF orders[p[2]].flow = "+"
                        THEN departs_early(p[1], orders[p[2]])
                        ELSE arrives_late(p[1], orders[p[2]])}}
            \cup
            {<<p[1][1], p[1][2], 2, orders[p[2]].flow, p[2]>> :
                p \in {p \in Elems(ret.in[4]) \X DOMAIN orders :
                        IF orders[p[2]].flow = "+"
                        THEN arrives_late(p[1], orders[p[2]])
                        ELSE departs_early(p[1], orders[p[2]])}}

\* C5 witness: a Forward and a Reverse order, arcs of both cities, one pair
\* marked and another pair left out
C5_Witness ==
    /\ ret.fn = "generate_epsilon_sets"
    /\ DOMAIN ret.in[1] # {} /\ DOMAIN ret.in[2] # {}
    /\ ret.in[3] # <<>> /\ ret.in[4] # <<>>
    /\ ret.out.val # <<>>
    /\ Len(ret.out.val) < 2 * (Len(ret.in[3]) + Len(ret.in[4]))

---------------------------------------------------------------------------
(* The narrow-window scenario: T = 6, one Forward order with window [4, 5] *)

InitScenario ==
    /\ cfg \in {DeliveryConfig(6, tau, n, svc) :
                    tau \in 1..2, n \in FleetsAuto, svc \in Services \cup ArcServices}
    /\ orders \in {(1 :> OrderBatch(1, "+", q, 4, 5)) : q \in Quantities}
    /\ FreshRun

SpecScenario == InitScenario /\ [][Next]_vars

\* the pair (arc, city) is marked infeasible for order 1
marked(dat, a, city) == <<a[1], a[2], city, "+", 1>> \in Elems(dat.epsilon_sets)

---------------------------------------------------------------------------
(* The memoized service functions on a loader whose configuration changes *)

\* numerators over den of the parameters a configuration may be given
ParameterValues ==
    [service_a_1 |-> {1, 2}, service_b_1 |-> {0, 1},
     service_a_2 |-> {1, 2}, service_b_2 |-> {0}]

\* the load or duration of the calls
CallArguments == {4}

InitCache ==
    /\ cfg \in {DeliveryConfig(1, 1, <<1, 0>>, <<a1, b1, a2, 0>>) :
                    a1 \in ParameterValues.service_a_1,
                    b1 \in ParameterValues.service_b_1,
                    a2 \in ParameterValues.service_a_2}
    /\ orders = <<>>
    /\ Fresh

\* loader.BHH_function_k(x) or loader.inverse_function_k(x)
CallService ==
    /\ \E fn \in FnNames, x \in CallArguments :
        \E call \in {Cached(cfg, cache, fn, x)} :
            /\ cache' = call.cache
            /\ ret' = [fn |-> fn, in |-> x, out |-> call.res]
    /\ UNCHANGED <<cfg, orders, data, opt, sol>>

\* cfg.service_a_k = v or cfg.service_b_k = v: DeliveryConfig is a plain mutable
\* dataclass, and the loader keeps the reference
SetServiceParameter ==
    /\ \E field \in DOMAIN ParameterValues : \E v \in ParameterValues[field] :
        /\ v # cfg[field]
        /\ cfg' = [cfg EXCEPT ![field] = v]
    /\ UNCHANGED <<orders, cache, ret, data, opt, sol>>

NextCache == CallService \/ SetServiceParameter

SpecCache == InitCache /\ [][NextCache]_vars

\* C10 (as claimed): every call of a service function or its inverse returns the
\* value computed from the parameters the configuration has at the call,
\* whatever calls and parameter changes came before.
C10_CallsUseCurrentParameters ==
    [][(cfg' = cfg /\ <<cache, ret>>' # <<cache, ret>>)
            => ret'.out = Body(cfg', ret'.fn, ret'.in)]_vars

---------------------------------------------------------------------------
(* The inverse service functions and the coefficient table on configurations *)
(* and durations of any sign (SpecInverse)                                   *)

\* service parameters over den = 2: city 1 has a, b > 0; city 2 also b = 0, a = 0
InverseServices == {<<1, 1, 1, 3>>, <<2, 1, 1, 0>>, <<1, 3, 0, 1>>}

\* t_0, the duration of one period; a negative one makes every duration negative
PeriodDurations == {1, -1}

InitInverse ==
    /\ cfg \in {[DeliveryConfig(T, 1, <<1, 0>>, svc) EXCEPT !.t_0 = t0] :
                    T \in 1..MaxT, svc \in InverseServices, t0 \in PeriodDurations}
    /\ orders = <<>>
    /\ Fresh

\* loader.inverse_function_k(duration), duration = periods * t_0
CallInverse ==
    /\ ret = NoCall
    /\ \E fn \in {"inverse_function_1", "inverse_function_2"},
          periods \in 0..(cfg.T + MaxBeyond) :
        \E call \in {Cached(cfg, cache, fn, periods * cfg.t_0)} :
            /\ cache' = call.cache
            /\ ret' = [fn |-> fn, in |-> periods * cfg.t_0, out |-> call.res]
    /\ UNCHANGED <<cfg, orders, data, opt, sol>>

\* c1, c2 = loader.pre_inverse_count(m1, m2) on arc collections of a caller
CallPreInverseCountOn ==
    /\ ret = NoCall
    /\ \E all \in ArcLists(cfg.T) : \E p \in 0..Len(all) :
        \E m1 \in {SubSeq(all, 1, p)}, m2 \in {SubSeq(all, p + 1, Len(all))} :
            \E coef \in {pre_inverse_count(cfg, cache, m1, m2)} :
                /\ cache' = coef.cache
                /\ ret' = [fn |-> "pre_inverse_count", in |-> <<m1, m2>>, out |-> coef.res]
    /\ UNCHANGED <<cfg, orders, data, opt, sol>>

NextInverse == CallInverse \/ CallPreInverseCountOn

SpecInverse == InitInverse /\ [][NextInverse]_vars

\* b^2 + 4*a*duration < 0, with a, b over den
negative_discriminant(c, city, duration) ==
    service_b(c, city) * service_b(c, city)
        + 4 * service_a(c, city) * c.den * duration < 0

\* C11 (as claimed): inverse(duration) fails with InvalidInput for every
\* duration < 0 and with NumericalError whenever the discriminant is negative,
\* and pre_inverse_count given an arc of negative duration fails instead of
\* returning a table.
C11_InverseRejectsNegativeDuration ==
    /\ \A city \in 1..2 :
        ret.fn = (IF city = 1 THEN "inverse_function_1" ELSE "inverse_function_2") =>
            /\ ret.in < 0 => ret.out = Raise("InvalidInput")
            /\ (ret.in >= 0 /\ negative_discriminant(cfg, city, ret.in))
                    => ret.out = Raise("NumericalError")
    /\ (ret.fn = "pre_inverse_count" /\ cfg.t_0 < 0 /\ ret.in # <<<<>>, <<>>>>)
            => ~ret.out.ok

\* x*|x|: has the sign of x and grows with x
SignedSquare(x) == x * Abs(x)

\* u <= v for two exact numbers: with alpha + S = u - v over the common
\* denominator, S = beta*sqrt(u.n) + gamma*sqrt(v.n)
LeqReal(u, v) ==
    LET alpha == u.p * v.d - v.p * u.d
        beta == u.r * v.d
        gamma == -(v.r * u.d)
        signS == SignedSquare(beta) * u.n + SignedSquare(gamma) * v.n
        K == beta * beta * u.n + gamma * gamma * v.n - alpha * alpha
        L == 2 * beta * gamma
        signD == SignedSquare(K) + SignedSquare(L) * u.n * v.n
    IN  IF alpha <= 0 THEN signS <= 0 \/ signD <= 0
                      ELSE signS < 0 /\ signD >= 0

\* the table pre_inverse_count returned for a city
coefficients(city) == ret.out.val[city]

\* C12: for a city with a, b > 0 and a period duration t_0 > 0, pre_inverse_count
\* stores a coefficient for every arc of the city's collection, each coefficient
\* is non-negative, an arc no longer than another has a coefficient no greater,
\* and arcs of equal duration have equal coefficients.
C12_CoefficientsMonotoneInDuration ==
    (ret.fn = "pre_inverse_count" /\ cfg.t_0 > 0) =>
        \A city \in 1..2 :
            (service_a(cfg, city) > 0 /\ service_b(cfg, city) > 0) =>
                /\ ret.in[3 - city] = <<>> => ret.out.ok
                /\ ret.out.ok =>
                    /\ DOMAIN coefficients(city) = Elems(ret.in[city])
                    /\ \A x \in DOMAIN coefficients(city) :
                          LeqReal(Real(0, 0, 0, 1), coefficients(city)[x])
                    /\ \A x, y \in DOMAIN coefficients(city) :
                        /\ x[2] - x[1] <= y[2] - y[1] =>
                              LeqReal(coefficients(city)[x], coefficients(city)[y])
                        /\ x[2] - x[1] = y[2] - y[1] =>
                              coefficients(city)[x] = coefficients(city)[y]

\* C12 witness: a city with a, b > 0 whose table holds two arcs of different
\* duration, the longer with the strictly greater coefficient
C12_Witness ==
    /\ ret.fn = "pre_inverse_count"
    /\ cfg.t_0 > 0
    /\ ret.out.ok
    /\ service_a(cfg, 1) > 0 /\ service_b(cfg, 1) > 0
    /\ \E x, y \in DOMAIN coefficients(1) :
        /\ x[2] - x[1] < y[2] - y[1]
        /\ ~LeqReal(coefficients(1)[y], coefficients(1)[x])

====
